---- MODULE Spec2Model ----
(***************************************************************************)
(* Model of the awesome-taskwarrior package manager (tw.py): the install   *)
(* ledger (Manifest), the registry source (RegistryManager), the generated *)
(* bash installers (make-awesome.py generate_installer) and the            *)
(* orchestrator (AppManager.install / remove / update).                    *)
(*                                                                         *)
(* Every AppManager operation is one action; the calls it makes (handle    *)
(* resolution, the installer subprocess, the Manifest reload or rewrite)   *)
(* are part of that action.  What the outside world decides (network       *)
(* fetches, the installer's exit status, the user's answer) is drawn with  *)
(* \E from a record of choices.                                            *)
(***************************************************************************)
EXTENDS Integers, Sequences, FiniteSets, TLC

\* ------------------------------------------------------------------ bounds
\* Number of commands one run of the model executes (also the range of the
\* ledger's timestamps).
MaxClock == 3
\* Temporary installer files that may pile up in the temp directory.
MaxTemps == 3
\* Declared files and comma-separated checksum items of a metadata text
\* given to verify.
MaxFiles == 2
MaxItems == 2
\* Tag arguments of one command line and items of one tags= line.
MaxArgs == 2
MaxTags == 2
\* Lines of one metadata text given to the parser.
MaxLines == 3
\* Entries of one Manifest written to the ledger text and read back.
MaxEntries == 2

\* --------------------------------------------------------------- constants
VERSION == "2.0.0"

\* The manager's own name: install/update of it bypasses the catalog.
TW == "tw"

\* Packages that have a <name>.meta / <name>.install pair written by
\* make-awesome.py.  files: ordered (filename, role) list with the content the
\* base_url serves; checksums, tags: the items of the checksums= and tags=
\* lines of the .meta file.
Packages == {"demo", "extra"}

Meta ==
  [ demo  |-> [ version   |-> "1.0",
                files     |-> << [name |-> "on-add.py", role |-> "hook",   content |-> "c1"],
                                 [name |-> "README.md", role |-> "doc",    content |-> "c2"] >>,
                checksums |-> << "h1", "h2" >>,
                tags      |-> << "hook", "python" >> ],
    extra |-> [ version   |-> "0.3",
                files     |-> << [name |-> "x.rc",      role |-> "config", content |-> "c3"] >>,
                checksums |-> << >>,
                tags      |-> << >> ] ]

AppNames == Packages \cup {TW}

\* ------------------------------------------------------------------- paths
\* A path is <<directory, prefix, filename>>; the generated installer
\* delivers a doc as "$DOCS_DIR/<app>_<filename>", which is prefix = app.
hooks_dir   == "hooks"
scripts_dir == "scripts"
config_dir  == "config"
docs_dir    == "docs"
task_dir    == "task"

tw_script_path == << scripts_dir, "", "tw" >>
tw_doc_path    == << docs_dir, "", "tw_README.md" >>

\* The directory variable the generated installer uses for a role.
InstallerDir(role) ==
  CASE role = "hook"   -> hooks_dir
    [] role = "script" -> scripts_dir
    [] role = "config" -> config_dir
    [] role = "doc"    -> docs_dir

\* Path a generated installer delivers a declared file to, and records.
DeliveredPath(app, f) ==
  IF f.role = "doc" THEN << docs_dir, app, f.name >>
                    ELSE << InstallerDir(f.role), "", f.name >>

AllPaths ==
  {tw_script_path, tw_doc_path}
    \cup UNION { { DeliveredPath(a, Meta[a].files[i]) : i \in DOMAIN Meta[a].files }
                 : a \in Packages }

ABSENT == ""

VARIABLES
  is_dev_mode,  \* PathManager.is_dev_mode: local registry (TRUE) or remote
  installers,   \* names whose <name>.install exists in the catalog
  ledger,       \* the .tw_manifest file: a sequence of lines (field lists)
  entries,      \* AppManager.manifest.entries (in memory)
  disk,         \* installed files: path -> content, ABSENT when missing
  temps,        \* temporary installer files present in the temp directory
  now,          \* logical clock: commands run so far, source of timestamps
  last,         \* what the last operation did (observation of the call)
  calc,         \* a library function applied to drawn inputs, with its result
  peer          \* a second command process running at the same time: whether
                \* it has built its Manifest, and the entries it holds

vars == << is_dev_mode, installers, ledger, entries, disk, temps, now, last,
           calc, peer >>

\* ---------------------------------------------------------------- Manifest
\* Manifest._save: one '|'-joined line per entry.
Save(es) ==
  [ i \in 1..Len(es) |->
      << es[i].app, es[i].version, es[i].file, es[i].checksum, es[i].date >> ]

\* Manifest._load: lines with at least five fields become entries.
Load(lines) ==
  LET ok(l) == Len(l) >= 5
      good  == SelectSeq(lines, ok)
  IN  [ i \in 1..Len(good) |->
          [ app |-> good[i][1], version |-> good[i][2], file |-> good[i][3],
            checksum |-> good[i][4], date |-> good[i][5] ] ]

is_installed(es, app) == \E i \in 1..Len(es) : es[i].app = app

get_version(es, app) ==
  LET idx == { i \in 1..Len(es) : es[i].app = app }
  IN  IF idx = {} THEN "None"
      ELSE es[CHOOSE i \in idx : \A j \in idx : i <= j].version

get_files(es, app) ==
  LET mine(e) == e.app = app
      sel == SelectSeq(es, mine)
  IN  [ i \in 1..Len(sel) |-> sel[i].file ]

\* Manifest.add without the removal of the existing entry.
ManifestAdd_keep_old(es, app, version, file_path, checksum, date) ==
  Append(es, [ app |-> app, version |-> version, file |-> file_path,
               checksum |-> checksum, date |-> date ])

\* Manifest.add: drop the entry of (app, file), append the new one.
ManifestAdd(es, app, version, file_path, checksum, date) ==
  LET other(e) == ~(e.app = app /\ e.file = file_path)
  IN  Append(SelectSeq(es, other),
             [ app |-> app, version |-> version, file |-> file_path,
               checksum |-> checksum, date |-> date ])

\* Manifest.remove_app dropping only the first entry of the app.
ManifestRemoveApp_first_only(es, app) ==
  LET idx == { i \in 1..Len(es) : es[i].app = app }
      first == CHOOSE i \in idx : \A j \in idx : i <= j
  IN  IF idx = {} THEN es
      ELSE [ i \in 1..(Len(es) - 1) |-> IF i < first THEN es[i] ELSE es[i + 1] ]

\* Manifest.remove_app
ManifestRemoveApp(es, app) ==
  LET other(e) == e.app # app
  IN  SelectSeq(es, other)

\* ------------------------------------------------------- the ledger as text
\* A line of the ledger file, and a field of an entry, is a sequence of
\* characters; "|" is the separator, " " a blank, "#" the hash sign.
\* str.strip(): blanks at both ends go.
RECURSIVE LStripText(_)
LStripText(t) ==
  IF Len(t) > 0 /\ t[1] = " " THEN LStripText(Tail(t)) ELSE t

RECURSIVE RStripText(_)
RStripText(t) ==
  IF Len(t) > 0 /\ t[Len(t)] = " " THEN RStripText(SubSeq(t, 1, Len(t) - 1)) ELSE t

StripText(t) == RStripText(LStripText(t))

\* line.split('|'): the pieces between the separators, empty ones included.
RECURSIVE SplitBar(_)
SplitBar(t) ==
  LET bars == { i \in 1..Len(t) : t[i] = "|" }
  IN  IF bars = {} THEN << t >>
      ELSE LET b == CHOOSE i \in bars : \A j \in bars : i <= j
           IN  << SubSeq(t, 1, b - 1) >> \o SplitBar(SubSeq(t, b + 1, Len(t)))

\* '|'.join(fields)
RECURSIVE JoinBar(_)
JoinBar(fields) ==
  IF Len(fields) = 0 THEN << >>
  ELSE IF Len(fields) = 1 THEN fields[1]
  ELSE fields[1] \o << "|" >> \o JoinBar(Tail(fields))

\* Manifest._save on the text: one joined line per entry.
SaveText(es) ==
  [ i \in 1..Len(es) |->
      JoinBar(<< es[i].app, es[i].version, es[i].file, es[i].checksum, es[i].date >>) ]

\* Manifest._load on the text: every line is stripped, an empty one is
\* skipped, one with at least five pieces becomes an entry of the first five.
LoadText(text) ==
  LET parts(i)  == SplitBar(StripText(text[i]))
      good      == { i \in 1..Len(text) :
                       StripText(text[i]) # << >> /\ Len(parts(i)) >= 5 }
      RECURSIVE from(_)
      from(i) ==
        IF i > Len(text) THEN << >>
        ELSE IF i \in good
          THEN << [ app |-> parts(i)[1], version |-> parts(i)[2],
                    file |-> parts(i)[3], checksum |-> parts(i)[4],
                    date |-> parts(i)[5] ] >> \o from(i + 1)
          ELSE from(i + 1)
  IN  from(1)

\* --------------------------------------------------------- generated installer
\* Files of a package by role, in the order generate_installer downloads
\* them: hooks, then scripts, then configs (a failed download aborts with
\* exit 1), then docs (a failed download is tolerated).
OfRole(app, role) ==
  LET is(f) == f.role = role
  IN  SelectSeq(Meta[app].files, is)

FatalFiles(app) == OfRole(app, "hook") \o OfRole(app, "script") \o OfRole(app, "config")

DocFiles(app) == OfRole(app, "doc")

\* disk after delivering the files fs[1..k] of app.
RECURSIVE Deliver(_, _, _, _)
Deliver(d, app, fs, k) ==
  IF k = 0 THEN d
  ELSE [ Deliver(d, app, fs, k - 1) EXCEPT ![DeliveredPath(app, fs[k])] = fs[k].content ]

\* The "Track in manifest" block: one appended line per declared file, in the
\* order of the files list, with an empty checksum field.
ManifestLines(app, date) ==
  [ i \in DOMAIN Meta[app].files |->
      << app, Meta[app].version, DeliveredPath(app, Meta[app].files[i]), "", date >> ]

\* The script edits .taskrc only for a package with a config file: install
\* appends the include line after the downloads and before the ledger lines,
\* remove deletes it after the ledger lines are gone.
EditsTaskrc(app) == Len(OfRole(app, "config")) > 0

\* `<installer> install`.  st is the state record; returns it with rc set.
\*   ch.outcome = "ok":   everything downloaded, ledger lines appended, exit 0
\*   ch.outcome = "fail": a download (or mkdir) failed after ch.partial files
\*   ch.outcome = "late": the .taskrc edit failed (as "ok" without that step)
InstallerInstall(st, app, ch, date) ==
  LET fatal == FatalFiles(app)
      docs  == DocFiles(app)
      k     == IF Len(fatal) = 0 THEN 0
               ELSE IF ch.partial < Len(fatal) THEN ch.partial ELSE Len(fatal) - 1
  IN  IF ch.outcome = "late" /\ EditsTaskrc(app)
      THEN [ st EXCEPT !.disk = Deliver(st.disk, app, fatal, Len(fatal)), !.rc = 1 ]
      ELSE IF ch.outcome \in {"ok", "late"}
      THEN LET d1 == Deliver(st.disk, app, fatal, Len(fatal))
               d2 == IF ch.doc THEN Deliver(d1, app, docs, Len(docs)) ELSE d1
           IN  [ st EXCEPT !.disk = d2,
                           !.ledger = st.ledger \o ManifestLines(app, date),
                           !.rc = 0 ]
      ELSE [ st EXCEPT !.disk = Deliver(st.disk, app, fatal, k), !.rc = 1 ]

\* disk after `rm` of the first k paths of ps that are regular files.
RECURSIVE Unlink(_, _, _)
Unlink(d, ps, k) ==
  IF k = 0 THEN d
  ELSE [ Unlink(d, ps, k - 1) EXCEPT ![ps[k]] = ABSENT ]

\* `<installer> remove`: rm every file of the ledger lines "^APPNAME|", then
\* sed-delete those lines.  Under `set -euo pipefail` a grep without a match,
\* or a failing rm, ends the script with a nonzero status before the sed;
\* a failing .taskrc edit ends it with a nonzero status after the sed.
InstallerRemove(st, app, ch) ==
  LET mine(l)  == l[1] = app
      other(l) == l[1] # app
      lines == SelectSeq(st.ledger, mine)
      paths == [ i \in 1..Len(lines) |-> lines[i][3] ]
      k     == IF ch.partial < Len(paths) THEN ch.partial ELSE Len(paths)
  IN  IF Len(lines) = 0 THEN [ st EXCEPT !.rc = 1 ]
      ELSE IF ch.outcome = "late" /\ EditsTaskrc(app)
      THEN [ st EXCEPT !.disk = Unlink(st.disk, paths, Len(paths)),
                       !.ledger = SelectSeq(st.ledger, other),
                       !.rc = 1 ]
      ELSE IF ch.outcome \in {"ok", "late"}
      THEN [ st EXCEPT !.disk = Unlink(st.disk, paths, Len(paths)),
                       !.ledger = SelectSeq(st.ledger, other),
                       !.rc = 0 ]
      ELSE [ st EXCEPT !.disk = Unlink(st.disk, paths, k), !.rc = 1 ]

\* ---------------------------------------------------------------- registry
NONE == "None"

\* A failure the call ran into: a fetch that raised URLError/HTTPError
\* ("TransportFailure") or an installer that did not exit 0
\* ("InstallerFailure").
Fail(st, kind) == [ st EXCEPT !.failures = @ \cup {kind} ]

\* RegistryManager.get_installer_path: the catalog's own file in local mode,
\* a freshly written temporary file in remote mode (None when the download
\* fails or the catalog has no such installer).
get_installer_path(st, app, ch) ==
  IF is_dev_mode
  THEN [ st EXCEPT !.resolved = @ + 1,
                   !.handle = IF app \in installers THEN "local" ELSE NONE ]
  ELSE IF ch.fetch /\ app \in installers
       THEN [ st EXCEPT !.resolved = @ + 1, !.handle = "temp", !.temps = @ + 1 ]
       ELSE LET s1 == [ st EXCEPT !.resolved = @ + 1, !.handle = NONE ]
            IN  IF ch.fetch THEN s1 ELSE Fail(s1, "TransportFailure")

\* os.unlink(installer_path) whatever the mode.
CleanupTemp_always(st) ==
  [ st EXCEPT !.temps = IF st.handle = "temp" THEN @ - 1 ELSE @,
              !.unlinked = @ \cup {st.handle} ]

\* os.unlink(installer_path) guarded by `if not self.paths.is_dev_mode`.
CleanupTemp(st) ==
  IF ~is_dev_mode
  THEN [ st EXCEPT !.temps = @ - 1, !.unlinked = @ \cup {st.handle} ]
  ELSE st

\* ------------------------------------------------------------- orchestrator
EnvDirs == { "INSTALL_DIR", "HOOKS_DIR", "SCRIPTS_DIR", "CONFIG_DIR",
             "DOCS_DIR", "LOGS_DIR", "TASKRC" }

\* subprocess.run([installer_path, verb], env=env): the invocation is
\* recorded with the number of calls that had returned by then;
\* ch.outcome = "exc" is the call raising before the script runs.
Invoke(st, verb, env) ==
  [ st EXCEPT !.runs = Append(@, [ verb |-> verb, env |-> env,
                                   tw_common |-> is_dev_mode,
                                   handle |-> st.handle,
                                   after |-> Len(st.calls) ]) ]

\* `return True/False` of the method fn, with the line it printed.
Return(st, fn, ok, report) ==
  [ st EXCEPT !.ok = ok, !.report = report,
              !.calls = Append(@, [ fn |-> fn, ok |-> ok ]) ]

\* AppManager._install_tw_itself
install_tw_itself(st, dry_run, ch, date) ==
  IF dry_run THEN Return(st, "_install_tw_itself", TRUE, "DryRun")
  ELSE IF ~ch.fetch
  THEN Return(Fail(st, "TransportFailure"), "_install_tw_itself", FALSE,
              "TransportFailure")
  ELSE LET d1 == [ st.disk EXCEPT ![tw_script_path] = "tw.py" ]
           d2 == IF ch.doc THEN [ d1 EXCEPT ![tw_doc_path] = "README.md" ] ELSE d1
           e1 == ManifestAdd(st.entries, TW, VERSION, tw_script_path, "", date)
           e2 == IF d2[tw_doc_path] # ABSENT
                 THEN ManifestAdd(e1, TW, VERSION, tw_doc_path, "", date)
                 ELSE e1
       IN  Return([ st EXCEPT !.disk = d2, !.entries = e2, !.ledger = Save(e2) ],
                  "_install_tw_itself", TRUE, "Installed")

\* install_run that runs the installer a second time after a nonzero exit.
install_run_retry(st, app_name, ch, date) ==
  LET s2 == Invoke(st, "install", EnvDirs)
  IN  IF ch.outcome = "exc"
      THEN Return(Fail(CleanupTemp(s2), "InstallerFailure"), "install", FALSE,
                  "InstallerFailure")
      ELSE
        LET s3 == CleanupTemp(InstallerInstall(s2, app_name, ch, date))
        IN  IF s3.rc = 0
            THEN Return([ s3 EXCEPT !.entries = Load(s3.ledger) ],
                        "install", TRUE, "Installed")
            ELSE Return(Fail(Invoke(s3, "install", EnvDirs), "InstallerFailure"),
                        "install", FALSE, "InstallerFailure")

\* AppManager.install, the try block: run `<handle> install`, unlink the
\* temporary installer, reload the Manifest when the exit status is 0.
install_run(st, app_name, ch, date) ==
  LET s2 == Invoke(st, "install", EnvDirs)
  IN  IF ch.outcome = "exc"
      THEN Return(Fail(CleanupTemp(s2), "InstallerFailure"), "install", FALSE,
                  "InstallerFailure")
      ELSE
        LET s3 == CleanupTemp(InstallerInstall(s2, app_name, ch, date))
        IN  IF s3.rc = 0
            THEN Return([ s3 EXCEPT !.entries = Load(s3.ledger) ],
                        "install", TRUE, "Installed")
            ELSE Return(Fail(s3, "InstallerFailure"), "install", FALSE,
                        "InstallerFailure")

\* install_from_catalog without the `if not installer_path` early return.
install_from_catalog_no_notfound(st, app_name, dry_run, ch, date) ==
  LET s1 == get_installer_path(st, app_name, ch)
  IN  IF dry_run THEN Return(s1, "install", TRUE, "DryRun")
      ELSE install_run(s1, app_name, ch, date)

\* install_from_catalog without the `if dry_run` early return.
install_from_catalog_no_dry_run(st, app_name, dry_run, ch, date) ==
  LET s1 == get_installer_path(st, app_name, ch)
  IN  IF s1.handle = NONE THEN Return(s1, "install", FALSE, "NotFound")
      ELSE install_run(s1, app_name, ch, date)

\* AppManager.install from "Get installer" on: resolve the handle, give up
\* when there is none, stop before the subprocess in a dry run.
install_from_catalog(st, app_name, dry_run, ch, date) ==
  LET s1 == get_installer_path(st, app_name, ch)
  IN  IF s1.handle = NONE THEN Return(s1, "install", FALSE, "NotFound")
      ELSE IF dry_run THEN Return(s1, "install", TRUE, "DryRun")
      ELSE install_run(s1, app_name, ch, date)

\* install without the "already installed" check.
install_overwrite(st, app_name, dry_run, ch, date) ==
  IF app_name = TW THEN install_tw_itself(st, dry_run, ch, date)
  ELSE install_from_catalog(st, app_name, dry_run, ch, date)

\* AppManager.install
install(st, app_name, dry_run, ch, date) ==
  IF app_name = TW THEN install_tw_itself(st, dry_run, ch, date)
  ELSE IF is_installed(st.entries, app_name)
       THEN Return(st, "install", TRUE, "AlreadyInstalled")
       ELSE install_from_catalog(st, app_name, dry_run, ch, date)

\* remove_run that keeps the cached entries after a successful removal.
remove_run_no_reload(st, app_name, ch) ==
  LET s2 == Invoke(st, "remove", {})
  IN  IF ch.outcome = "exc"
      THEN Return(Fail(CleanupTemp(s2), "InstallerFailure"), "remove", FALSE,
                  "InstallerFailure")
      ELSE
        LET s3 == CleanupTemp(InstallerRemove(s2, app_name, ch))
        IN  IF s3.rc = 0
            THEN Return(s3, "remove", TRUE, "Removed")
            ELSE Return(Fail(s3, "InstallerFailure"), "remove", FALSE,
                        "InstallerFailure")

\* AppManager.remove, the `if installer_path` branch: run `<handle> remove`,
\* unlink the temporary installer, reload the Manifest when the status is 0.
remove_run(st, app_name, ch) ==
  LET s2 == Invoke(st, "remove", {})
  IN  IF ch.outcome = "exc"
      THEN Return(Fail(CleanupTemp(s2), "InstallerFailure"), "remove", FALSE,
                  "InstallerFailure")
      ELSE
        LET s3 == CleanupTemp(InstallerRemove(s2, app_name, ch))
        IN  IF s3.rc = 0
            THEN Return([ s3 EXCEPT !.entries = Load(s3.ledger) ],
                        "remove", TRUE, "Removed")
            ELSE Return(Fail(s3, "InstallerFailure"), "remove", FALSE,
                        "InstallerFailure")

\* remove_fallback that drops the entries in memory but never rewrites the
\* ledger.
remove_fallback_no_save(st, app_name) ==
  LET files == get_files(st.entries, app_name)
      es    == ManifestRemoveApp(st.entries, app_name)
  IN  Return([ st EXCEPT !.disk = Unlink(st.disk, files, Len(files)),
                         !.entries = es ],
             "remove", TRUE, "Removed")

\* AppManager.remove, the fallback branch: unlink every recorded path that
\* exists, then Manifest.remove_app.
remove_fallback(st, app_name) ==
  LET files == get_files(st.entries, app_name)
      es    == ManifestRemoveApp(st.entries, app_name)
  IN  Return([ st EXCEPT !.disk = Unlink(st.disk, files, Len(files)),
                         !.entries = es,
                         !.ledger = Save(es) ],
             "remove", TRUE, "Removed")

\* remove without the `if not self.manifest.is_installed` early return.
remove_unchecked(st, app_name, ch) ==
  IF app_name = TW /\ ~ch.confirm THEN Return(st, "remove", FALSE, "Cancelled")
  ELSE
    LET s1 == get_installer_path(st, app_name, ch)
    IN  IF s1.handle # NONE THEN remove_run(s1, app_name, ch)
                            ELSE remove_fallback(s1, app_name)

\* AppManager.remove
remove(st, app_name, ch) ==
  IF app_name = TW /\ ~ch.confirm THEN Return(st, "remove", FALSE, "Cancelled")
  ELSE IF ~is_installed(st.entries, app_name)
  THEN Return(st, "remove", FALSE, "NotInstalled")
  ELSE
    LET s1 == get_installer_path(st, app_name, ch)
    IN  IF s1.handle # NONE THEN remove_run(s1, app_name, ch)
                            ELSE remove_fallback(s1, app_name)

\* update that tries `<handle> update` before the remove/install sequence.
update_verb_first(st, app_name, ch1, ch2, date) ==
  IF app_name = TW THEN install_tw_itself(st, FALSE, ch1, date)
  ELSE IF is_installed(st.entries, app_name)
       THEN LET s0 == Invoke(get_installer_path(st, app_name, ch1), "update", EnvDirs)
                s1 == remove(s0, app_name, ch1)
            IN  IF ~s1.ok THEN s1
                ELSE install(s1, app_name, FALSE, ch2, date)
       ELSE install(st, app_name, FALSE, ch2, date)

\* update that reports success whatever the final install returned.
update_ignores_install(st, app_name, ch1, ch2, date) ==
  IF app_name = TW THEN install_tw_itself(st, FALSE, ch1, date)
  ELSE IF is_installed(st.entries, app_name)
       THEN LET s1 == remove(st, app_name, ch1)
            IN  IF ~s1.ok THEN s1
                ELSE [ install(s1, app_name, FALSE, ch2, date) EXCEPT !.ok = TRUE ]
       ELSE install(st, app_name, FALSE, ch2, date)

\* update that refuses a package that is not installed.
update_requires_installed(st, app_name, ch1, ch2, date) ==
  IF app_name = TW THEN install_tw_itself(st, FALSE, ch1, date)
  ELSE IF is_installed(st.entries, app_name)
       THEN LET s1 == remove(st, app_name, ch1)
            IN  IF ~s1.ok THEN s1
                ELSE install(s1, app_name, FALSE, ch2, date)
       ELSE Return(st, "update", FALSE, "NotInstalled")

\* AppManager.update: remove (when installed), then install.
update(st, app_name, ch1, ch2, date) ==
  IF app_name = TW THEN install_tw_itself(st, FALSE, ch1, date)
  ELSE IF is_installed(st.entries, app_name)
       THEN LET s1 == remove(st, app_name, ch1)
            IN  IF ~s1.ok THEN s1
                ELSE install(s1, app_name, FALSE, ch2, date)
       ELSE install(st, app_name, FALSE, ch2, date)

\* ------------------------------------------------------------------ verify
\* str.strip() of one comma-separated item or argument: a blank one becomes
\* empty, surrounding blanks go.
Strip(x) ==
  CASE x = " "     -> ""
    [] x = " Hook" -> "Hook"
    [] OTHER       -> x

\* What str.strip() of "+rest" or "-rest" leaves of rest: blanks at the end go,
\* blanks after the prefix stay.
RStrip(x) == IF x = " " THEN "" ELSE x

\* MetaFile.get_checksums: the items of checksums=, stripped, empty ones dropped.
get_checksums(items) ==
  LET kept(c) == Strip(c) # ""
      sel == SelectSeq(items, kept)
  IN  [ i \in 1..Len(sel) |-> Strip(sel[i]) ]

\* AppManager._get_target_dir
TargetDir(file_type) ==
  CASE file_type = "hook"   -> hooks_dir
    [] file_type = "script" -> scripts_dir
    [] file_type = "config" -> config_dir
    [] file_type = "doc"    -> docs_dir
    [] OTHER                -> task_dir

\* target_dir / filename
VerifyPath(f) == << TargetDir(f.role), "", f.name >>

\* AppManager._calculate_checksum: SHA-256 of the file's content.
Sha256(content) ==
  CASE content = "c1" -> "h1"
    [] content = "c2" -> "h2"
    [] content = "c3" -> "h3"
    [] OTHER          -> "h0"

\* Path.exists()
Exists(d, path) == path \in DOMAIN d /\ d[path] # ABSENT

\* The loop of verify from file i on, stopping at the first failure.
RECURSIVE verify_loop_early_exit(_, _, _, _, _)
verify_loop_early_exit(files, checksums, d, i, acc) ==
  IF i > Len(files) \/ i > Len(checksums) \/ ~acc.all_valid THEN acc
  ELSE
    LET path == VerifyPath(files[i])
        out  == IF checksums[i] = "" THEN "unverified"
                ELSE IF ~Exists(d, path) THEN "missing"
                ELSE IF Sha256(d[path]) = checksums[i] THEN "ok"
                ELSE "mismatch"
    IN  verify_loop_early_exit(files, checksums, d, i + 1,
          [ all_valid |-> acc.all_valid /\ out \in {"ok", "unverified"},
            outcomes  |-> [ acc.outcomes EXCEPT ![i] = out ] ])

\* The `for i, (filename, file_type) in enumerate(files)` loop of verify from
\* file i on: break past the checksum list, skip an empty checksum, a missing
\* file or a different hash clears all_valid and the loop goes on.
RECURSIVE verify_loop(_, _, _, _, _)
verify_loop(files, checksums, d, i, acc) ==
  IF i > Len(files) \/ i > Len(checksums) THEN acc
  ELSE
    LET path == VerifyPath(files[i])
        out  == IF checksums[i] = "" THEN "unverified"
                ELSE IF ~Exists(d, path) THEN "missing"
                ELSE IF Sha256(d[path]) = checksums[i] THEN "ok"
                ELSE "mismatch"
    IN  verify_loop(files, checksums, d, i + 1,
          [ all_valid |-> acc.all_valid /\ out \in {"ok", "unverified"},
            outcomes  |-> [ acc.outcomes EXCEPT ![i] = out ] ])

\* AppManager.verify once the metadata is there: `return True` without any
\* check when get_checksums() is empty, else the loop.  The result carries
\* the checksum list used and one outcome per declared file.
verify_files(files, items, d) ==
  LET checksums == get_checksums(items)
      none == [ all_valid |-> TRUE,
                outcomes  |-> [ i \in 1..Len(files) |-> "unverified" ] ]
      res  == IF Len(checksums) = 0 THEN none
              ELSE verify_loop(files, checksums, d, 1, none)
  IN  [ all_valid |-> res.all_valid, outcomes |-> res.outcomes,
        checksums |-> checksums ]

\* urlopen raising URLError/HTTPError: remote mode with the network down.
FetchFails(ch) == ~is_dev_mode /\ ~ch.fetch

\* RegistryManager.get_meta: the catalog's <name>.meta as a one-element
\* sequence, empty (None) when the catalog has none or (remote mode) the
\* fetch fails.
get_meta(app, ch) ==
  IF app \in installers /\ (is_dev_mode \/ ch.fetch) THEN << Meta[app] >> ELSE << >>

\* verify that re-delivers a file it finds missing or changed.
verify_repairs(st, app_name, ch) ==
  IF ~is_installed(st.entries, app_name)
  THEN Return(st, "verify", FALSE, "NotInstalled")
  ELSE
    LET meta == get_meta(app_name, ch)
    IN  IF meta = << >>
        THEN Return(IF FetchFails(ch) THEN Fail(st, "TransportFailure") ELSE st,
                    "verify", FALSE, "MetaNotFound")
        ELSE
          LET v == verify_files(meta[1].files, meta[1].checksums, st.disk)
              bad == { k \in DOMAIN meta[1].files : v.outcomes[k] \in {"missing", "mismatch"} }
              d2 == [ q \in DOMAIN st.disk |->
                        IF \E k \in bad : q = VerifyPath(meta[1].files[k])
                        THEN "repaired" ELSE st.disk[q] ]
          IN  Return([ st EXCEPT !.checks = v.outcomes, !.disk = d2 ], "verify",
                     v.all_valid,
                     IF Len(v.checksums) = 0 THEN "NoChecksums"
                     ELSE IF v.all_valid THEN "Verified"
                     ELSE "VerificationFailed")

\* AppManager.verify
verify(st, app_name, ch) ==
  IF ~is_installed(st.entries, app_name)
  THEN Return(st, "verify", FALSE, "NotInstalled")
  ELSE
    LET meta == get_meta(app_name, ch)
    IN  IF meta = << >>
        THEN Return(IF FetchFails(ch) THEN Fail(st, "TransportFailure") ELSE st,
                    "verify", FALSE, "MetaNotFound")
        ELSE
          LET v == verify_files(meta[1].files, meta[1].checksums, st.disk)
          IN  Return([ st EXCEPT !.checks = v.outcomes ], "verify", v.all_valid,
                     IF Len(v.checksums) = 0 THEN "NoChecksums"
                     ELSE IF v.all_valid THEN "Verified"
                     ELSE "VerificationFailed")

\* ---------------------------------------------------------------- TagFilter
\* str.lower()
Lower(x) ==
  CASE x = "Hook"  -> "hook"
    [] OTHER       -> x

\* MetaFile.get_tags: the items of tags=, stripped and lower-cased, empty
\* ones dropped.
get_tags(items) ==
  LET tags == [ i \in 1..Len(items) |-> Lower(Strip(items[i])) ]
      kept(t) == t # ""
  IN  SelectSeq(tags, kept)

\* TagFilter._parse from argument i on.  An argument is <<prefix, rest>> with
\* prefix "+", "-" or none; a blank argument is skipped.
RECURSIVE parse_from(_, _, _)
parse_from(filter_args, i, f) ==
  IF i > Len(filter_args) THEN f
  ELSE
    LET prefix == filter_args[i][1]
        rest   == filter_args[i][2]
    IN  IF prefix = "" /\ Strip(rest) = "" THEN parse_from(filter_args, i + 1, f)
        ELSE IF prefix = "-"
          THEN parse_from(filter_args, i + 1,
                 [ f EXCEPT !.exclude_tags = Append(@, Lower(RStrip(rest))) ])
          ELSE parse_from(filter_args, i + 1,
                 [ f EXCEPT !.include_tags =
                     Append(@, Lower(IF prefix = "+" THEN RStrip(rest)
                                                    ELSE Strip(rest))) ])

\* TagFilter(filter_args)
TagFilter(filter_args) ==
  parse_from(filter_args, 1, [ include_tags |-> << >>, exclude_tags |-> << >> ])

\* TagFilter.matches asking for any include tag instead of all of them.
matches_any(f, app_tags) ==
  LET app_tag_set == { Strip(Lower(app_tags[i])) :
                         i \in { j \in 1..Len(app_tags) : Strip(app_tags[j]) # "" } }
  IN  IF Len(f.include_tags) = 0 /\ Len(f.exclude_tags) = 0 THEN TRUE
      ELSE IF Len(f.include_tags) > 0
              /\ ~\E i \in 1..Len(f.include_tags) : f.include_tags[i] \in app_tag_set
        THEN FALSE
      ELSE IF \E i \in 1..Len(f.exclude_tags) : f.exclude_tags[i] \in app_tag_set
        THEN FALSE
      ELSE TRUE

\* TagFilter.matches
matches(f, app_tags) ==
  LET app_tag_set == { Strip(Lower(app_tags[i])) :
                         i \in { j \in 1..Len(app_tags) : Strip(app_tags[j]) # "" } }
  IN  IF Len(f.include_tags) = 0 /\ Len(f.exclude_tags) = 0 THEN TRUE
      ELSE IF Len(f.include_tags) > 0
              /\ ~\A i \in 1..Len(f.include_tags) : f.include_tags[i] \in app_tag_set
        THEN FALSE
      ELSE IF Len(f.exclude_tags) > 0
              /\ \E i \in 1..Len(f.exclude_tags) : f.exclude_tags[i] \in app_tag_set
        THEN FALSE
      ELSE TRUE

\* ----------------------------------------------------------------- MetaFile
\* A line of a .meta text, already stripped, is the sequence of its pieces:
\* << >> is a blank line, "#" opens a comment, "=" is the equals sign.
\* Position of the first "=" of a line, 0 when it has none.
FirstEq(line) ==
  LET eqs == { i \in 1..Len(line) : line[i] = "=" }
  IN  IF eqs = {} THEN 0 ELSE CHOOSE i \in eqs : \A j \in eqs : i <= j

\* `if not line or line.startswith('#'): continue` and `if '=' in line`
IsAssignment(line) == Len(line) > 0 /\ line[1] # "#" /\ FirstEq(line) > 0

\* key, value = line.split('=', 1)
KeyOf(line) == SubSeq(line, 1, FirstEq(line) - 1)

ValueOf(line) == SubSeq(line, FirstEq(line) + 1, Len(line))

\* MetaFile._parse: self.data after the loop over the lines; a later line
\* with the same key replaces the earlier value.
parse_data(lines) ==
  LET idx  == { i \in 1..Len(lines) : IsAssignment(lines[i]) }
      keys == { KeyOf(lines[i]) : i \in idx }
      last_of(k) == CHOOSE i \in idx :
                      /\ KeyOf(lines[i]) = k
                      /\ \A j \in idx : KeyOf(lines[j]) = k => j <= i
  IN  [ k \in keys |-> ValueOf(lines[last_of(k)]) ]

\* MetaFile(content): the constructor has no raise statement; every text
\* yields an object.
MetaFile(lines) == [ raised |-> NONE, data |-> parse_data(lines) ]

\* ------------------------------------------------------------------ listing
\* RegistryManager.get_available_apps: the names of the catalog's .meta
\* files; the remote listing answers with the empty list when the fetch fails.
get_available_apps(ch) == IF FetchFails(ch) THEN {} ELSE installers

\* AppManager.list_apps(tag_filter); filter_args = << >> is the call without
\* a filter.  The method returns None.
list_apps(st, filter_args, ch) ==
  LET s1 == IF FetchFails(ch) THEN Fail(st, "TransportFailure") ELSE st
      available_apps == get_available_apps(ch)
      f == TagFilter(filter_args)
      filtered_apps ==
        IF Len(filter_args) = 0 THEN available_apps
        ELSE { a \in available_apps : matches(f, get_tags(Meta[a].tags)) }
  IN  IF available_apps = {}
      THEN Return(s1, "list_apps", FALSE, "NoApplications")
      ELSE IF filtered_apps = {}
      THEN Return(s1, "list_apps", FALSE, "NoMatch")
      ELSE Return([ s1 EXCEPT !.listed = filtered_apps ], "list_apps", FALSE,
                  "Listed")

\* AppManager.list_all_tags: the tags of every package of the catalog; the
\* method returns None.
list_all_tags(st, ch) ==
  LET s1 == IF FetchFails(ch) THEN Fail(st, "TransportFailure") ELSE st
      tagged == { a \in get_available_apps(ch) : Len(get_tags(Meta[a].tags)) > 0 }
  IN  IF tagged = {}
      THEN Return(s1, "list_all_tags", FALSE, "NoTags")
      ELSE Return([ s1 EXCEPT !.listed = tagged ], "list_all_tags", FALSE, "Tags")

\* ------------------------------------------------------------ state machine
\* What the outside world decides during one call.  Only the combinations
\* that can differ are listed: a failed fetch runs nothing; `partial` counts
\* the files handled before a failing step; `doc` is the optional doc (or
\* README) download of a run that succeeds; `confirm` is the user's answer.
Choice(fetch, outcome, partial, doc, confirm) ==
  [ fetch |-> fetch, outcome |-> outcome, partial |-> partial, doc |-> doc,
    confirm |-> confirm ]

Choices ==
  { Choice(FALSE, "ok", 0, FALSE, TRUE), Choice(TRUE, "exc", 0, FALSE, TRUE),
    Choice(TRUE, "ok", 0, FALSE, FALSE) }
    \cup { Choice(TRUE, "fail", k, FALSE, TRUE) : k \in 0..1 }
    \cup { Choice(TRUE, "late", 0, FALSE, TRUE) }
    \cup { Choice(TRUE, "ok", 0, d, TRUE) : d \in BOOLEAN }

\* The state record an operation starts from.  Every command is a new
\* process: AppManager.__init__ builds the Manifest, which reads the ledger.
Start ==
  [ ledger |-> ledger, entries |-> Load(ledger), disk |-> disk, temps |-> temps,
    runs |-> << >>, calls |-> << >>, resolved |-> 0, handle |-> NONE, rc |-> 0,
    ok |-> FALSE, report |-> "", checks |-> << >>, failures |-> {},
    listed |-> {}, unlinked |-> {} ]

NoOp ==
  [ op |-> "none", app |-> "", dry_run |-> FALSE, ok |-> TRUE, report |-> "",
    resolved |-> 0, handle |-> NONE, runs |-> << >>, calls |-> << >>,
    checks |-> << >>, failures |-> {}, listed |-> {}, unlinked |-> {},
    exit |-> 0,
    pre |-> [ ledger |-> << >>, entries |-> << >>,
              disk |-> [ p \in AllPaths |-> ABSENT ], temps |-> 0,
              installed |-> FALSE, installers |-> {} ] ]

\* No library function has been applied.
NoCalc == [ fn |-> "none" ]

\* No second process runs.
NoPeer == [ started |-> FALSE, entries |-> << >> ]

Init ==
  /\ is_dev_mode \in BOOLEAN
  /\ installers \in SUBSET Packages
  /\ ledger = << >>
  /\ entries = Load(ledger)
  /\ disk = [ p \in AllPaths |-> ABSENT ]
  /\ temps = 0
  /\ now = 0
  /\ last = NoOp
  /\ calc = NoCalc
  /\ peer = NoPeer

\* main: the exit status of the command.  --tags and --list return 0 after
\* the call; install, remove, update and verify return 0 for True, 1 for False.
main_exit(op, ok) ==
  IF op \in {"list", "tags"} THEN 0
  ELSE IF ok THEN 0 ELSE 1

\* The operation's effect becomes the next state; an unlinked catalog
\* installer is gone from the catalog.
Commit(op, app, dry_run, t) ==
  /\ t.temps <= MaxTemps
  /\ installers' = IF "local" \in t.unlinked THEN installers \ {app} ELSE installers
  /\ ledger' = t.ledger
  /\ entries' = t.entries
  /\ disk' = t.disk
  /\ temps' = t.temps
  /\ now' = now + 1
  /\ last' = [ op |-> op, app |-> app, dry_run |-> dry_run, ok |-> t.ok,
               report |-> t.report, resolved |-> t.resolved, handle |-> t.handle,
               runs |-> t.runs, calls |-> t.calls, checks |-> t.checks,
               failures |-> t.failures, listed |-> t.listed,
               unlinked |-> t.unlinked,
               exit |-> main_exit(op, t.ok),
               pre |-> [ ledger |-> ledger, entries |-> Start.entries, disk |-> disk,
                         temps |-> temps,
                         installed |-> is_installed(Start.entries, app),
                         installers |-> installers ] ]
  /\ UNCHANGED << peer, is_dev_mode, calc >>

Install(app, dry_run) ==
  /\ now < MaxClock
  /\ \E ch \in Choices : Commit("install", app, dry_run, install(Start, app, dry_run, ch, now))

Remove(app) ==
  /\ now < MaxClock
  /\ \E ch \in Choices : Commit("remove", app, FALSE, remove(Start, app, ch))

Update(app) ==
  /\ now < MaxClock
  /\ \E ch1, ch2 \in Choices :
       Commit("update", app, FALSE, update(Start, app, ch1, ch2, now))

Verify(app) ==
  /\ now < MaxClock
  /\ \E ch \in Choices : Commit("verify", app, FALSE, verify(Start, app, ch))

\* Tag arguments of `tw --list`: none, +hook, -hook.
ListFilters == { << >>, << << "+", "hook" >> >>, << << "-", "hook" >> >> }

\* tw --list [+tag | -tag]
List(filter_args) ==
  /\ now < MaxClock
  /\ \E ch \in Choices : Commit("list", "", FALSE, list_apps(Start, filter_args, ch))

\* tw --tags
Tags ==
  /\ now < MaxClock
  /\ \E ch \in Choices : Commit("tags", "", FALSE, list_all_tags(Start, ch))

Next ==
  \/ \E app \in AppNames, dry_run \in BOOLEAN : Install(app, dry_run)
  \/ \E app \in AppNames : Remove(app)
  \/ \E app \in AppNames : Update(app)
  \/ \E app \in AppNames : Verify(app)
  \/ \E filter_args \in ListFilters : List(filter_args)
  \/ Tags

Spec == Init /\ [][Next]_vars

\* ---- verify applied to drawn metadata and disk contents
\* Names of up to MaxFiles declared files, roles, checksum items as they
\* stand between the commas of checksums=, and file contents.
FileName(i) == << "a.py", "b.py", "c.py", "d.py" >>[i]

Roles == { "hook", "doc" }

Items == { "", " ", "h1", "h2" }

Contents == { ABSENT, "c1", "c2" }

FileLists ==
  UNION { { [ i \in 1..n |-> [ name |-> FileName(i), role |-> r[i] ] ]
            : r \in [ 1..n -> Roles ] } : n \in 0..MaxFiles }

ItemLists == UNION { [ 1..n -> Items ] : n \in 0..MaxItems }

\* verify on the declared files, the checksums= items and the disk d.
VerifyFiles ==
  /\ calc = NoCalc
  /\ \E files \in FileLists, items \in ItemLists :
       \E d \in [ { VerifyPath(files[i]) : i \in DOMAIN files } -> Contents ] :
         calc' = [ fn |-> "verify", files |-> files, items |-> items,
                   disk |-> d, result |-> verify_files(files, items, d) ]
  /\ UNCHANGED << peer, is_dev_mode, installers, ledger, entries, disk, temps, now,
                  last >>

SpecVerify == Init /\ [][VerifyFiles]_vars

\* ---- TagFilter applied to drawn arguments and tags= items
\* Command-line tag arguments (prefix, rest) and the items between the commas
\* of a tags= line.
TagArgs == { "+", "-", "" } \X { "", " ", "hook", "Hook", "deprecated" }

TagItems == { "", "hook", " Hook", "deprecated", "python" }

ArgLists == UNION { [ 1..n -> TagArgs ] : n \in 0..MaxArgs }

TagLists == UNION { [ 1..n -> TagItems ] : n \in 0..MaxTags }

\* list_apps: tag_filter.matches(meta.get_tags()) for a filter built from the
\* command line.
MatchTags ==
  /\ calc = NoCalc
  /\ \E filter_args \in ArgLists, items \in TagLists :
       LET f == TagFilter(filter_args)
           tags == get_tags(items)
       IN  calc' = [ fn |-> "matches", args |-> filter_args, items |-> items,
                     filter |-> f, tags |-> tags, result |-> matches(f, tags) ]
  /\ UNCHANGED << peer, is_dev_mode, installers, ledger, entries, disk, temps, now,
                  last >>

SpecTags == Init /\ [][MatchTags]_vars

\* ---- MetaFile applied to drawn metadata texts
MetaLines ==
  { << >>, << "junk" >>, << "#", "name", "=", "demo" >>,
    << "name", "=", "demo" >>, << "name", "=" >>,
    << "version", "=", "1.0" >>, << "version", "=", "a", "=", "b" >> }

MetaTexts == UNION { [ 1..n -> MetaLines ] : n \in 0..MaxLines }

\* RegistryManager.get_meta building MetaFile(content) from a fetched text.
ParseMeta ==
  /\ calc = NoCalc
  /\ \E lines \in MetaTexts :
       calc' = [ fn |-> "parse", lines |-> lines, result |-> MetaFile(lines) ]
  /\ UNCHANGED << peer, is_dev_mode, installers, ledger, entries, disk, temps, now,
                  last >>

SpecParse == Init /\ [][ParseMeta]_vars

\* ---- the ledger text read, and written and read back
\* Lines a ledger file may hold: blank, a record, a record with blanks
\* around it, a record cut short, comments with and without separators.
LedgerLines ==
  { << >>, << " " >>,
    << "a", "|", "1", "|", "p", "|", "|", "d" >>,
    << " ", "a", "|", "1", "|", "p", "|", "h", "|", "d", " " >>,
    << "a", "|", "1", "|", "p" >>,
    << "#", " ", "c" >>,
    << "#", "a", "|", "1", "|", "p", "|", "h", "|", "d" >> }

LedgerTexts == UNION { [ 1..n -> LedgerLines ] : n \in 0..MaxLines }

\* Field values of an entry: plain ones, an empty checksum, a version and a
\* path containing the separator, a path with a blank in front.
EntryValues ==
  [ app : { << "a" >>, << "t", "w" >> },
    version : { << "1" >>, << "1", "|", "2" >> },
    file : { << "p" >>, << "p", "|", "q" >>, << " ", "p" >> },
    checksum : { << >>, << "h" >> },
    date : { << "d" >> } ]

EntryLists == UNION { [ 1..n -> EntryValues ] : n \in 0..MaxEntries }

\* Manifest(manifest_path) on a ledger file with the drawn lines.
LoadLedger ==
  /\ calc = NoCalc
  /\ \E text \in LedgerTexts :
       calc' = [ fn |-> "load", text |-> text, result |-> LoadText(text) ]
  /\ UNCHANGED << peer, is_dev_mode, installers, ledger, entries, disk, temps,
                  now, last >>

\* _save of the drawn entries, then a new Manifest reading the file.
SaveThenLoad ==
  /\ calc = NoCalc
  /\ \E es \in EntryLists :
       calc' = [ fn |-> "save_load", entries |-> es, text |-> SaveText(es),
                 result |-> LoadText(SaveText(es)) ]
  /\ UNCHANGED << peer, is_dev_mode, installers, ledger, entries, disk, temps,
                  now, last >>

NextLedger ==
  \/ LoadLedger
  \/ SaveThenLoad

SpecLedger == Init /\ [][NextLedger]_vars

\* ---- the Manifest object driven call by call
\* Arguments of Manifest.add: the paths tw records for itself and one a
\* package's installer records, and two (version, checksum) pairs.
AddFiles == { tw_script_path, << hooks_dir, "", "on-add.py" >> }

AddData == { << VERSION, "" >>, << "1.9.0", "h1" >> }

\* manifest.add(app, version, file_path, checksum), _save included.
ManifestAddCall ==
  /\ now < MaxClock
  /\ \E app \in AppNames, file_path \in AddFiles, vc \in AddData :
       /\ entries' = ManifestAdd(entries, app, vc[1], file_path, vc[2], now)
       /\ calc' = [ fn |-> "add", app |-> app, version |-> vc[1],
                    file |-> file_path, checksum |-> vc[2], pre |-> entries ]
  /\ ledger' = Save(entries')
  /\ now' = now + 1
  /\ UNCHANGED << peer, is_dev_mode, installers, disk, temps, last >>

\* manifest.remove_app(app), _save included.
ManifestRemoveAppCall ==
  /\ now < MaxClock
  /\ \E app \in AppNames :
       /\ entries' = ManifestRemoveApp(entries, app)
       /\ calc' = [ fn |-> "remove_app", app |-> app, pre |-> entries ]
  /\ ledger' = Save(entries')
  /\ now' = now + 1
  /\ UNCHANGED << peer, is_dev_mode, installers, disk, temps, last >>

\* A generated installer's "Track in manifest" block for a package the ledger
\* does not hold yet: lines appended to the file behind the Manifest's back.
InstallerAppend ==
  /\ now < MaxClock
  /\ \E app \in Packages :
       /\ ~\E i \in 1..Len(ledger) : ledger[i][1] = app
       /\ ledger' = ledger \o ManifestLines(app, now)
  /\ now' = now + 1
  /\ calc' = NoCalc
  /\ UNCHANGED << peer, is_dev_mode, installers, entries, disk, temps, last >>

\* Manifest(manifest_path): a new object reads the ledger.
ManifestInit ==
  /\ entries' = Load(ledger)
  /\ calc' = NoCalc
  /\ UNCHANGED << peer, is_dev_mode, installers, ledger, disk, temps, now, last >>

NextManifest ==
  \/ ManifestAddCall
  \/ ManifestRemoveAppCall
  \/ InstallerAppend
  \/ ManifestInit

SpecManifest == Init /\ [][NextManifest]_vars

\* ---- two command processes on one ledger
\* The second process builds its Manifest: Manifest(manifest_path) reads the
\* ledger once.
PeerInit ==
  /\ ~peer.started
  /\ peer' = [ started |-> TRUE, entries |-> Load(ledger) ]
  /\ calc' = NoCalc
  /\ UNCHANGED << is_dev_mode, installers, ledger, entries, disk, temps, now, last >>

\* PeerAdd reading the ledger again right before it changes it.
PeerAdd_reloads ==
  /\ now < MaxClock
  /\ peer.started
  /\ \E app \in {TW}, file_path \in AddFiles, vc \in {<< VERSION, "" >>} :
       /\ peer' = [ peer EXCEPT !.entries =
                      ManifestAdd(Load(ledger), app, vc[1], file_path, vc[2], now) ]
       /\ calc' = [ fn |-> "peer_add", app |-> app, version |-> vc[1],
                    file |-> file_path, checksum |-> vc[2], pre |-> peer.entries ]
  /\ ledger' = Save(peer'.entries)
  /\ now' = now + 1
  /\ UNCHANGED << is_dev_mode, installers, entries, disk, temps, last >>

\* manifest.add in the second process, with the arguments tw's self-install
\* passes: filter and append on the entries it holds, then _save rewrites the
\* whole ledger from them.
PeerAdd ==
  /\ now < MaxClock
  /\ peer.started
  /\ \E app \in {TW}, file_path \in AddFiles, vc \in {<< VERSION, "" >>} :
       /\ peer' = [ peer EXCEPT !.entries =
                      ManifestAdd(@, app, vc[1], file_path, vc[2], now) ]
       /\ calc' = [ fn |-> "peer_add", app |-> app, version |-> vc[1],
                    file |-> file_path, checksum |-> vc[2], pre |-> peer.entries ]
  /\ ledger' = Save(peer'.entries)
  /\ now' = now + 1
  /\ UNCHANGED << is_dev_mode, installers, entries, disk, temps, last >>

NextRace ==
  \/ ManifestInit
  \/ ManifestAddCall
  \/ PeerInit
  \/ PeerAdd

SpecRace == Init /\ [][NextRace]_vars

\* ---- a process that stops inside Manifest._save
\* What the ledger file can hold when the process stops in _save, which
\* opens the file with mode 'w' (truncating it) and writes the lines in
\* place: the old content (stopped before open), or the first k new lines,
\* possibly followed by the beginning of the next one.
SaveStoppedStates(old, new) ==
  {old}
    \cup { SubSeq(new, 1, k) : k \in 0..Len(new) }
    \cup { Append(SubSeq(new, 1, k), SubSeq(new[k + 1], 1, 2)) : k \in 0..(Len(new) - 1) }

\* Entries a Manifest mutation is about to save: those of an add or of a
\* remove_app.
Mutations(es, date) ==
  { ManifestAdd(es, app, vc[1], file_path, vc[2], date) :
      app \in AppNames, file_path \in AddFiles, vc \in AddData }
    \cup { ManifestRemoveApp(es, app) : app \in AppNames }

\* add or remove_app whose process stops inside _save; the next command
\* process then builds its Manifest from what the file holds.
StopInSave ==
  /\ now < MaxClock
  /\ \E es \in Mutations(entries, now) :
       /\ ledger' \in SaveStoppedStates(ledger, Save(es))
       /\ calc' = [ fn |-> "stopped", old |-> ledger, new |-> Save(es) ]
  /\ entries' = Load(ledger')
  /\ now' = now + 1
  /\ UNCHANGED << peer, is_dev_mode, installers, disk, temps, last >>

NextStop ==
  \/ ManifestAddCall
  \/ ManifestRemoveAppCall
  \/ StopInSave

SpecStop == Init /\ [][NextStop]_vars

TypeOK ==
  /\ is_dev_mode \in BOOLEAN
  /\ installers \subseteq Packages
  /\ temps \in 0..MaxTemps
  /\ now \in 0..MaxClock
  /\ DOMAIN disk = AllPaths

\* ------------------------------------------------------------------ claims
\* The ledger on disk has a line of app.
LedgerHas(app) == \E i \in 1..Len(ledger) : ledger[i][1] = app

\* The last operation left Manifest (memory and disk) and files as they were.
Untouched ==
  /\ ledger = last.pre.ledger
  /\ entries = last.pre.entries
  /\ disk = last.pre.disk

\* C1 (as stated): for ANY name, install(name) with a Manifest entry for name
\* reports AlreadyInstalled, resolves and runs no installer, and leaves the
\* Manifest (memory and disk) and the installed files unchanged.
C1_AnyName ==
  (last.op = "install" /\ last.pre.installed) =>
    /\ last.report = "AlreadyInstalled"
    /\ last.resolved = 0
    /\ last.runs = << >>
    /\ Untouched

\* C1 (amended): for any name other than the manager's own name "tw",
\* install(name) with a Manifest entry for name reports AlreadyInstalled,
\* resolves and runs no installer, and leaves the Manifest (memory and disk)
\* and the installed files unchanged.
C1_AlreadyInstalled ==
  (last.op = "install" /\ last.app # TW /\ last.pre.installed) =>
    /\ last.report = "AlreadyInstalled"
    /\ last.resolved = 0
    /\ last.runs = << >>
    /\ Untouched

C1_Witness ==
  /\ last.op = "install" /\ last.app \in installers /\ ~last.dry_run
  /\ last.pre.installed
  /\ last.report = "AlreadyInstalled"

\* C2: install(name) of a name the catalog does not have resolves no
\* installer handle, and an install whose handle resolution yields nothing
\* returns failure, starts no installer and leaves the Manifest unchanged.
C2_NotFound ==
  /\ (last.op = "install" /\ last.app \in Packages \ installers /\ ~last.pre.installed)
        => (last.resolved = 1 /\ last.handle = NONE)
  /\ (last.op = "install" /\ last.resolved = 1 /\ last.handle = NONE) =>
        /\ ~last.ok
        /\ last.runs = << >>
        /\ ledger = last.pre.ledger
        /\ entries = last.pre.entries

C2_Witness ==
  /\ last.op = "install" /\ ~last.dry_run
  /\ last.app \in Packages \ installers
  /\ last.handle = NONE /\ ~last.ok

\* The checksum the metadata pairs with the i-th declared file ("" if none).
PairedChecksum(app, i) ==
  IF i <= Len(Meta[app].checksums) THEN Meta[app].checksums[i] ELSE ""

\* C3 (as stated): after a successful install of a catalog package that was
\* not installed, the Manifest holds exactly one entry per declared file,
\* each with the checksum paired with that file, and isInstalled is true.
C3_OneEntryPerFileWithChecksum ==
  (last.op = "install" /\ last.app \in Packages /\ last.ok
     /\ last.report = "Installed") =>
    LET app   == last.app
        files == Meta[app].files
        mine  == { i \in 1..Len(entries) : entries[i].app = app }
    IN  /\ is_installed(entries, app)
        /\ Cardinality(mine) = Len(files)
        /\ \A k \in 1..Len(files) :
             \E i \in mine :
               /\ entries[i].file[3] = files[k].name
               /\ entries[i].checksum = PairedChecksum(app, k)

\* C4: a dry-run install never starts the installer process and never
\* writes the Manifest (ledger on disk and cached entries stay as they were).
C4_DryRunNoInstallerNoManifest ==
  (last.op = "install" /\ last.dry_run) =>
    /\ last.runs = << >>
    /\ ledger = last.pre.ledger
    /\ entries = last.pre.entries

C4_Witness ==
  /\ last.op = "install" /\ last.dry_run
  /\ last.handle # NONE
  /\ last.report = "DryRun"

\* C5 (as stated): a dry-run install mutates nothing on the filesystem, in
\* local and in remote mode: installed files, ledger and the set of
\* temporary files are the same after the call as before it.
C5_DryRunNoFilesystemChange ==
  (last.op = "install" /\ last.dry_run) =>
    /\ disk = last.pre.disk
    /\ ledger = last.pre.ledger
    /\ temps = last.pre.temps

\* C6 (as stated): every temporary installer file materialized for an
\* install or remove is deleted before the operation returns, on every exit
\* path (success, nonzero exit, exception, dry-run).
C6_TempRemovedOnEveryPath ==
  (last.op \in {"install", "remove"}) => temps = last.pre.temps

C8_NoRollback ==
  (last.op = "update" /\ Len(last.calls) = 2
     /\ last.calls[1] = [ fn |-> "remove", ok |-> TRUE ]) =>
    /\ last.calls[2].fn = "install"
    /\ \A i \in 1..Len(last.runs) :
         last.runs[i].verb = "install" => last.runs[i].after = 1
    /\ ~last.calls[2].ok =>
         /\ ~last.ok
         /\ ~is_installed(entries, last.app)
         /\ ~LedgerHas(last.app)

C8_Witness ==
  /\ last.op = "update"
  /\ last.calls = << [ fn |-> "remove", ok |-> TRUE ], [ fn |-> "install", ok |-> FALSE ] >>
  /\ Len(last.runs) = 2
  /\ ~last.ok /\ ~is_installed(entries, last.app)

\* C9 (as stated): update(name) of a name with no Manifest entry fails,
\* runs no installer and leaves the Manifest unchanged.
C9_UpdateRequiresInstalled ==
  (last.op = "update" /\ ~last.pre.installed) =>
    /\ ~last.ok
    /\ last.runs = << >>
    /\ ledger = last.pre.ledger
    /\ entries = last.pre.entries

\* C9 (amended): update(name) does not require the package to be installed:
\* for a name with no Manifest entry it invokes no `remove`, performs
\* install(name) and returns the result of that install.
C9_UpdateInstallsWhenAbsent ==
  (last.op = "update" /\ ~last.pre.installed) =>
    /\ \A i \in 1..Len(last.runs) : last.runs[i].verb = "install"
    /\ Len(last.calls) = 1
    /\ last.calls[1].fn \in {"install", "_install_tw_itself"}
    /\ last.ok = last.calls[1].ok

C9_Witness ==
  /\ last.op = "update" /\ ~last.pre.installed
  /\ last.app \in Packages
  /\ last.ok /\ is_installed(entries, last.app)

\* C10: after remove(name) succeeded through the installer (`<handle> remove`
\* exited 0) the Manifest has no entry for name, in memory and on disk, and
\* a following install(name) does not report AlreadyInstalled.
C10_RemovedThenInstallable ==
  (last.op = "remove" /\ last.ok /\ last.runs # << >>) =>
    /\ ~is_installed(entries, last.app)
    /\ ~LedgerHas(last.app)
    /\ \A ch \in Choices :
         install(Start, last.app, FALSE, ch, now).report # "AlreadyInstalled"

C10_Witness ==
  /\ last.op = "remove" /\ last.ok
  /\ Len(last.runs) = 1 /\ last.runs[1].verb = "remove"
  /\ last.pre.installed

\* C11: remove(name) of an installed package for which no installer handle
\* resolves deletes every path the Manifest records for name (a path that is
\* already missing is tolerated), purges the entries of name in memory and
\* in the ledger, runs no installer and returns success.
C11_FallbackRemoval ==
  (last.op = "remove" /\ last.pre.installed
     /\ last.resolved = 1 /\ last.handle = NONE) =>
    /\ last.ok
    /\ last.runs = << >>
    /\ \A i \in 1..Len(last.pre.entries) :
         last.pre.entries[i].app = last.app
           => disk[last.pre.entries[i].file] = ABSENT
    /\ ~is_installed(entries, last.app)
    /\ ~LedgerHas(last.app)

C11_Witness ==
  /\ last.op = "remove" /\ last.pre.installed
  /\ last.resolved = 1 /\ last.handle = NONE /\ last.ok
  /\ \E i, j \in 1..Len(last.pre.entries) :
       /\ last.pre.entries[i].app = last.app
       /\ last.pre.entries[j].app = last.app
       /\ last.pre.disk[last.pre.entries[i].file] # ABSENT
       /\ last.pre.disk[last.pre.entries[j].file] = ABSENT
  /\ ~is_installed(entries, last.app)

\* C12: remove(name) of a name with no Manifest entry returns failure,
\* resolves and runs no installer, deletes no file and leaves the Manifest
\* (memory and ledger) unchanged.
C12_RemoveNotInstalled ==
  (last.op = "remove" /\ ~last.pre.installed) =>
    /\ ~last.ok
    /\ last.resolved = 0
    /\ last.runs = << >>
    /\ Untouched

C12_Witness ==
  /\ last.op = "remove" /\ ~last.pre.installed
  /\ last.app \in installers
  /\ last.report = "NotInstalled"

\* C13 (as stated): verify(name) on an installed package whose metadata is
\* available reports a missing file and fails overall whenever a declared
\* file is absent from its expected path, whether or not checksums are
\* supplied for it or for any other file.
C13_MissingFileFails ==
  (last.op = "verify" /\ last.pre.installed
     /\ last.report \notin {"NotInstalled", "MetaNotFound"}) =>
    \A k \in DOMAIN Meta[last.app].files :
      ~Exists(disk, VerifyPath(Meta[last.app].files[k]))
        => (~last.ok /\ last.checks[k] = "missing")

\* Did verify find file i of the drawn metadata on the drawn disk?
CalcPresent(i) == Exists(calc.disk, VerifyPath(calc.files[i]))

\* C14: verify returns the conjunction of the per-file outcomes; every
\* present file whose paired checksum differs from its hash is reported as a
\* mismatch and fails the result, also after an earlier failure; a present
\* file with no checksum is unverifiable and never fails the result.
C14_ConjunctionOfOutcomes ==
  (calc.fn = "verify") =>
    LET r  == calc.result
        cs == r.checksums
        n  == Len(calc.files)
        hash(i) == Sha256(calc.disk[VerifyPath(calc.files[i])])
    IN  /\ r.all_valid = (\A i \in 1..n : r.outcomes[i] \in {"ok", "unverified"})
        /\ \A i \in 1..n :
             /\ (CalcPresent(i) /\ i <= Len(cs) /\ hash(i) # cs[i])
                  => (r.outcomes[i] = "mismatch" /\ ~r.all_valid)
             /\ (CalcPresent(i) /\ i <= Len(cs) /\ hash(i) = cs[i])
                  => r.outcomes[i] = "ok"
             /\ (CalcPresent(i) /\ i > Len(cs)) => r.outcomes[i] = "unverified"
        /\ (\A i \in 1..n : CalcPresent(i) /\ (i > Len(cs) \/ hash(i) = cs[i]))
             => r.all_valid

C14_Witness ==
  /\ calc.fn = "verify"
  /\ Len(calc.files) = 2
  /\ calc.result.outcomes = << "missing", "mismatch" >>
  /\ ~calc.result.all_valid

\* C15 (as stated): the i-th comma-separated item of checksums= is the
\* checksum used for the i-th file, for every i up to the shorter of the two
\* lists; files beyond the items are unverifiable, and an empty item leaves
\* only its own file unverifiable ("" stands for unverifiable).
C15_PositionalPairing ==
  (calc.fn = "verify") =>
    \A i \in 1..Len(calc.files) :
      LET used == IF i <= Len(calc.result.checksums)
                  THEN calc.result.checksums[i] ELSE ""
      IN  used = IF i <= Len(calc.items) THEN Strip(calc.items[i]) ELSE ""

\* Entries of the pair (app, file) in a list of entries.
PairEntries(es, app, file) == { i \in 1..Len(es) : es[i].app = app /\ es[i].file = file }

\* No pair (app, file) has two entries.
OnePerPair(es) ==
  \A i, j \in 1..Len(es) : (es[i].app = es[j].app /\ es[i].file = es[j].file) => i = j

\* C16: after any sequence of Manifest.add and Manifest.remove_app calls the
\* Manifest holds at most one entry per (app, path), in memory and in the
\* ledger it saved; right after add(app, version, path, checksum) the pair
\* (app, path) has exactly one entry and it carries that call's version and
\* checksum, whatever an earlier add recorded for the pair.
C16_OneEntryPerPair ==
  /\ OnePerPair(entries)
  /\ (calc.fn \in {"add", "remove_app"}) => OnePerPair(Load(ledger))
  /\ (calc.fn = "add") =>
       /\ Cardinality(PairEntries(entries, calc.app, calc.file)) = 1
       /\ \A i \in PairEntries(entries, calc.app, calc.file) :
            entries[i].version = calc.version /\ entries[i].checksum = calc.checksum

\* add was called for a pair that an earlier add had recorded with another
\* version and checksum, and the Manifest holds other entries too.
C16_Witness ==
  /\ calc.fn = "add"
  /\ \E i \in PairEntries(calc.pre, calc.app, calc.file) :
       calc.pre[i].version # calc.version /\ calc.pre[i].checksum # calc.checksum
  /\ Len(entries) >= 2
  /\ Cardinality(PairEntries(entries, calc.app, calc.file)) = 1

\* C17: after remove_app(app), is_installed(app) is false and get_files(app)
\* is empty, in the Manifest object and in a Manifest re-read from the ledger.
C17_RemoveAppForgetsApp ==
  (calc.fn = "remove_app") =>
    /\ ~is_installed(entries, calc.app)
    /\ get_files(entries, calc.app) = << >>
    /\ ~is_installed(Load(ledger), calc.app)
    /\ get_files(Load(ledger), calc.app) = << >>

\* remove_app was called for an app with two entries while another app had
\* entries, which stay.
C17_Witness ==
  /\ calc.fn = "remove_app"
  /\ Len(get_files(calc.pre, calc.app)) = 2
  /\ Len(entries) >= 1
  /\ ~is_installed(Load(ledger), calc.app)

\* Elements of a sequence.
Range(seq) == { seq[i] : i \in 1..Len(seq) }

\* C18: matches(tags) is true for every tag set when the filter has neither
\* include nor exclude tokens; otherwise it is true exactly when every include
\* token is in the package's tags and no exclude token is.  With
\* include = {hook} and exclude = {deprecated}: {hook, python} matches,
\* {hook, deprecated} and {python} do not.
C18_MatchesRule ==
  (calc.fn = "matches") =>
    LET inc  == Range(calc.filter.include_tags)
        exc  == Range(calc.filter.exclude_tags)
        tags == Range(calc.tags)
    IN  /\ (inc = {} /\ exc = {}) => calc.result
        /\ ~(inc = {} /\ exc = {}) =>
             (calc.result <=> (inc \subseteq tags /\ exc \cap tags = {}))
        /\ (inc = {"hook"} /\ exc = {"deprecated"}) =>
             /\ (tags = {"hook", "python"}) => calc.result
             /\ (tags = {"hook", "deprecated"}) => ~calc.result
             /\ (tags = {"python"}) => ~calc.result

\* The filter +Hook -deprecated matched the tags hook, python.
C18_Witness ==
  /\ calc.fn = "matches"
  /\ calc.args = << << "+", "Hook" >>, << "-", "deprecated" >> >>
  /\ calc.filter = [ include_tags |-> << "hook" >>, exclude_tags |-> << "deprecated" >> ]
  /\ Range(calc.tags) = {"hook", "python"}
  /\ calc.result

\* C19: every command that runs into an installer failure (an installer that
\* did not exit 0) or a transport failure (a catalog listing, metadata or
\* installer fetch that raised) ends with a nonzero exit status, the list and
\* tag-listing commands included.
C19_FailureExitsNonzero ==
  (last.op # "none" /\ last.failures # {}) => last.exit # 0

\* C20: every installer invocation, for install and remove alike, is given
\* INSTALL_DIR, HOOKS_DIR, SCRIPTS_DIR, CONFIG_DIR, DOCS_DIR, LOGS_DIR and
\* TASKRC, and the shared-helper variable in local mode only.
C20_EnvOnEveryInvocation ==
  \A i \in 1..Len(last.runs) :
    /\ last.runs[i].env = EnvDirs
    /\ last.runs[i].tw_common = is_dev_mode

\* C21: when the installer run by install(name) exits nonzero, install returns
\* failure (exit status 1), the installer was run exactly once in that
\* operation, and the Manifest is as before, in memory and on disk.
C21_InstallerFailureNotRetried ==
  (last.op = "install" /\ "InstallerFailure" \in last.failures) =>
    /\ ~last.ok
    /\ last.exit = 1
    /\ Len(last.runs) = 1
    /\ last.runs[1].verb = "install"
    /\ entries = last.pre.entries
    /\ ledger = last.pre.ledger

\* install of a second package whose installer exited nonzero: one run, the
\* Manifest still holds the first package only.
C21_Witness ==
  /\ last.op = "install"
  /\ "InstallerFailure" \in last.failures
  /\ Len(last.runs) = 1
  /\ last.report = "InstallerFailure"
  /\ Len(entries) > 0
  /\ ~is_installed(entries, last.app)

\* C22: parsing a metadata text that has no `name` key fails with a
\* ParseError instead of producing a record without a name.
C22_NoNameIsParseError ==
  (calc.fn = "parse" /\ << "name" >> \notin DOMAIN calc.result.data) =>
    calc.result.raised = "ParseError"

\* C23: every Manifest mutation is crash-safe: when the process stops at any
\* point of the rewrite, the ledger on disk is either the complete previous
\* content or the complete new content.
C23_CrashSafe ==
  (calc.fn = "stopped") => ledger \in { calc.old, calc.new }

\* The pair (app, file) has an entry in es.
HasPair(es, app, file) == PairEntries(es, app, file) # {}

\* C24: the Manifest has no locking: when a second process that loaded the
\* ledger earlier rewrites it, every entry the first process wrote in between
\* (one the second process never loaded and does not add itself) is missing
\* from the ledger afterwards; such a lost update is reachable.
C24_LostUpdate ==
  (calc.fn = "peer_add") =>
    \A i \in 1..Len(entries) :
      ( /\ ~HasPair(calc.pre, entries[i].app, entries[i].file)
        /\ ~(entries[i].app = calc.app /\ entries[i].file = calc.file) )
      => ~HasPair(Load(ledger), entries[i].app, entries[i].file)

\* Both processes are running, the first one added and saved an entry, and
\* after the second one's add the ledger holds the second's entry only.
C24_Witness ==
  /\ calc.fn = "peer_add"
  /\ peer.started
  /\ \E i \in 1..Len(entries) :
       /\ ~HasPair(calc.pre, entries[i].app, entries[i].file)
       /\ ~HasPair(Load(ledger), entries[i].app, entries[i].file)
  /\ HasPair(Load(ledger), calc.app, calc.file)

\* C25: loading the ledger treats every line that begins with "#" as a
\* comment: no entry comes from such a line, however many separators it has.
C25_HashLinesAreComments ==
  (calc.fn = "load") =>
    LET kept(l) == LET t == StripText(l) IN ~(Len(t) > 0 /\ t[1] = "#")
    IN  calc.result = LoadText(SelectSeq(calc.text, kept))

\* C29: the Manifest round-trips through the ledger file: saving a list of
\* entries and loading it yields the same entries in the same order with the
\* same five fields, also with an empty checksum and with a path or version
\* that contains "|" or blanks at its ends.
C29_SaveLoadRoundTrip ==
  (calc.fn = "save_load") => calc.result = calc.entries

\* C26: verify(name) and list_apps(tag_filter) are pure reads: whatever the
\* input and the catalog or Manifest state, they resolve and start no
\* installer, leave every installed file and the temp directory as they
\* were, and leave the Manifest (ledger and memory) unchanged.
C26_VerifyAndListReadOnly ==
  (last.op \in {"verify", "list"}) =>
    /\ last.runs = << >>
    /\ last.resolved = 0
    /\ Untouched
    /\ temps = last.pre.temps

\* verify found a changed or missing file of an installed package and left
\* it alone.
C26_Witness ==
  /\ last.op = "verify"
  /\ last.report = "VerificationFailed"
  /\ \E k \in DOMAIN last.checks : last.checks[k] \in {"missing", "mismatch"}
  /\ Len(ledger) > 0
  /\ disk = last.pre.disk

\* Every declared file of app is where its installer delivers it, unmodified.
DeliveredIntact(app) ==
  \A k \in DOMAIN Meta[app].files :
    disk[DeliveredPath(app, Meta[app].files[k])] = Meta[app].files[k].content

\* The checksums= line of app has the right hash for every declared file.
CorrectChecksums(app) ==
  /\ Len(Meta[app].checksums) = Len(Meta[app].files)
  /\ \A k \in DOMAIN Meta[app].files :
       Meta[app].checksums[k] = Sha256(Meta[app].files[k].content)

\* C30: for every declared file, the path the generated installer delivers
\* it to (and records) is the path verify resolves from its role, so verify
\* succeeds on an installed package whose files are unmodified and whose
\* checksums are correct.
C30_VerifyAfterInstall ==
  ( /\ last.op = "verify"
    /\ last.pre.installed
    /\ last.report \notin {"NotInstalled", "MetaNotFound"}
    /\ last.app \in Packages
    /\ DeliveredIntact(last.app)
    /\ CorrectChecksums(last.app) )
  => /\ last.ok
     /\ \A k \in DOMAIN Meta[last.app].files :
          /\ DeliveredPath(last.app, Meta[last.app].files[k])
               = VerifyPath(Meta[last.app].files[k])
          /\ last.checks[k] = "ok"

\* C27: at the return of every install, remove and update, whether it
\* succeeded or failed, the Manifest held in memory equals what the ledger on
\* disk holds.
C27_CacheEqualsLedger ==
  (last.op \in {"install", "remove", "update"}) => entries = Load(ledger)

\* C28: in local registry mode every installer an install, remove or update
\* runs is the catalog's own file, nothing is unlinked and the catalog keeps
\* every installer, on success, failure and exception alike; in remote mode
\* every installer run is a temporary file and only temporary files are
\* unlinked.
C28_LocalHandleKept ==
  (last.op \in {"install", "remove", "update"}) =>
    /\ is_dev_mode =>
         /\ \A i \in DOMAIN last.runs : last.runs[i].handle = "local"
         /\ last.unlinked = {}
         /\ installers = last.pre.installers
         /\ temps = last.pre.temps
    /\ ~is_dev_mode =>
         /\ \A i \in DOMAIN last.runs : last.runs[i].handle = "temp"
         /\ last.unlinked \subseteq {"temp"}
         /\ installers = last.pre.installers

\* Local mode: an update removed the package and its install then failed;
\* both runs used the catalog's file, which is still there.
C28_Witness ==
  /\ is_dev_mode
  /\ last.op = "update"
  /\ Len(last.runs) = 2
  /\ "InstallerFailure" \in last.failures
  /\ last.app \in installers
====
